---- MODULE Spec2Model ----
(***************************************************************************)
(* TradeTide: position lifecycle (TradeTide/position.py), capital          *)
(* managers (TradeTide/capital_managment.py) and static risk levels        *)
(* (TradeTide/risk_management.py).                                         *)
(*                                                                         *)
(* Prices, sizes and cash are Python floats in the source; here they are   *)
(* exact rationals <<n, d>> (d > 0, lowest terms), so that divisions such  *)
(* as size = (available_cash - spread) / entry_price keep their value.     *)
(* Bars are numbered 1..NumBars; the date of a bar is its number.  A       *)
(* trigger that is None in the source is 0 here.                           *)
(***************************************************************************)
EXTENDS Integers, Naturals, Sequences, FiniteSets, TLC

VARIABLES market, risk_management, available_cash, positions, portfolio,
          manager, signal, time_info, position_list, cursor, raised,
          first_run, trailing, metrics, conversion, loaded, sizing

vars == <<market, risk_management, available_cash, positions, portfolio,
          manager, signal, time_info, position_list, cursor, raised,
          first_run, trailing, metrics, conversion, loaded, sizing>>

\* The state of the components that take no part in the position lifecycle
\* and in the capital managers: the trailing exit strategy, the performance
\* metrics, percent_to_float, the market-data loaders and the sizing
\* arithmetic.
component_vars == <<trailing, metrics, conversion, loaded, sizing>>

Idle == [stage |-> "none"]

ComponentsIdle ==
    /\ trailing = Idle
    /\ metrics = Idle
    /\ conversion = Idle
    /\ loaded = Idle
    /\ sizing = Idle

(***************************************************************************)
(* Bounds                                                                  *)
(***************************************************************************)
NumBars == 3

(***************************************************************************)
(* Exact rational arithmetic standing for Python float arithmetic          *)
(***************************************************************************)
RECURSIVE GCD(_, _)
GCD(a, b) == IF b = 0 THEN a ELSE GCD(b, a % b)

Abs(n) == IF n < 0 THEN 0 - n ELSE n

Norm(n, d) ==
    LET s == IF d < 0 THEN 0 - 1 ELSE 1
        g == GCD(Abs(n), Abs(d))
    IN  <<(s * n) \div g, (s * d) \div g>>

R(n) == <<n, 1>>

RAdd(x, y) == Norm(x[1] * y[2] + y[1] * x[2], x[2] * y[2])

RSub(x, y) == Norm(x[1] * y[2] - y[1] * x[2], x[2] * y[2])

RMul(x, y) == Norm(x[1] * y[1], x[2] * y[2])

RDiv(x, y) == Norm(x[1] * y[2], x[2] * y[1])

RLt(x, y) == x[1] * y[2] < y[1] * x[2]

RLe(x, y) == x[1] * y[2] <= y[1] * x[2]

RMin(x, y) == IF RLe(x, y) THEN x ELSE y

RFloor(x) == R(x[1] \div x[2])

Bars == 1..NumBars

(***************************************************************************)
(* Market data: one row per bar with low <= close <= high.                 *)
(***************************************************************************)
BarShapes ==
    { [low |-> 2, close |-> 2, high |-> 2],
      [low |-> 1, close |-> 2, high |-> 2],
      [low |-> 1, close |-> 2, high |-> 3],
      [low |-> 3, close |-> 3, high |-> 3] }

Spreads == {0, 1}

Markets ==
    { [i \in Bars |-> [low |-> R(s[i].low), close |-> R(s[i].close),
                       high |-> R(s[i].high), spread |-> R(sp)]] :
        s \in [Bars -> BarShapes], sp \in Spreads }

(***************************************************************************)
(* TradeTide/position.py                                                   *)
(***************************************************************************)
NaN == <<0, 0>>

\* BasePosition.__post_init__: entry price, size and cost at the start date.
\* Attributes that are assigned later hold a placeholder until then.
post_init(type, start_date, cash, mkt) ==
    LET spread == mkt[start_date].spread
        entry_price == mkt[start_date].close
        size == RDiv(RSub(cash, spread), entry_price)
    IN  [ type |-> type,
          start_date |-> start_date,
          available_cash |-> cash,
          spread |-> spread,
          entry_price |-> entry_price,
          size |-> size,
          cost |-> RAdd(RMul(size, entry_price), spread),
          is_valid |-> ~RLt(size, R(1)),
          stop_loss_price |-> R(0),
          take_profit_price |-> R(0),
          stop_loss_trigger |-> 0,
          take_profit_trigger |-> 0,
          stop_date |-> 0,
          has_is_win |-> FALSE,
          is_win |-> 0,
          entry_value |-> R(0),
          exit_price |-> R(0),
          entry_spend |-> R(0),
          exit_get |-> R(0),
          stage |-> "constructed" ]

\* BasePosition.get_loss_profit_prices
get_loss_profit_prices(p, risk) ==
    IF p.type = "long"
    THEN [p EXCEPT !.stop_loss_price = RSub(p.entry_price, risk.stop_loss),
                   !.take_profit_price = RAdd(p.entry_price, risk.take_profit)]
    ELSE [p EXCEPT !.stop_loss_price = RAdd(p.entry_price, risk.stop_loss),
                   !.take_profit_price = RSub(p.entry_price, risk.take_profit)]

SetMin(S) == CHOOSE x \in S : \A y \in S : x <= y

\* self.market.loc[self.start_date:]: the bars at or after the start date
market_after_start(mkt, start_date) == {i \in DOMAIN mkt : i >= start_date}

\* frame.first_valid_index(): the first bar of a selection of rows, None (0)
\* when the selection is empty.
first_valid_index(rows) == IF rows = {} THEN 0 ELSE SetMin(rows)

\* min(filter(pandas.notna, [stop_loss_trigger, take_profit_trigger, index[-1]]))
min_notna(slt, tpt, last) == SetMin({d \in {slt, tpt, last} : d # 0})

\* Variant of Long.compute_triggers whose stop condition is strict
Long_compute_triggers_strict(p, mkt) ==
    LET condition_for_stop(row) == RLt(row.low, p.stop_loss_price)
        condition_for_profit(row) == RLe(p.take_profit_price, row.high)
        after == market_after_start(mkt, p.start_date)
        slt == first_valid_index({i \in after : condition_for_stop(mkt[i])})
        tpt == first_valid_index({i \in after : condition_for_profit(mkt[i])})
    IN  [p EXCEPT !.stop_loss_trigger = slt,
                  !.take_profit_trigger = tpt,
                  !.stop_date = min_notna(slt, tpt, Len(mkt))]

\* Long.compute_triggers
Long_compute_triggers(p, mkt) ==
    LET condition_for_stop(row) == RLe(row.low, p.stop_loss_price)
        condition_for_profit(row) == RLe(p.take_profit_price, row.high)
        after == market_after_start(mkt, p.start_date)
        slt == first_valid_index({i \in after : condition_for_stop(mkt[i])})
        tpt == first_valid_index({i \in after : condition_for_profit(mkt[i])})
    IN  [p EXCEPT !.stop_loss_trigger = slt,
                  !.take_profit_trigger = tpt,
                  !.stop_date = min_notna(slt, tpt, Len(mkt))]

\* Short.compute_triggers
Short_compute_triggers(p, mkt) ==
    LET condition_for_stop(row) == RLe(p.stop_loss_price, row.high)
        condition_for_profit(row) == RLe(row.low, p.take_profit_price)
        after == market_after_start(mkt, p.start_date)
        slt == first_valid_index({i \in after : condition_for_stop(mkt[i])})
        tpt == first_valid_index({i \in after : condition_for_profit(mkt[i])})
    IN  [p EXCEPT !.stop_loss_trigger = slt,
                  !.take_profit_trigger = tpt,
                  !.stop_date = min_notna(slt, tpt, Len(mkt))]

compute_triggers(p, mkt) ==
    IF p.type = "long" THEN Long_compute_triggers(p, mkt)
                       ELSE Short_compute_triggers(p, mkt)

\* BasePosition.compute_is_win: three independent if statements; when none
\* of them fires the attribute is_win is not assigned at all.
compute_is_win(p) ==
    LET stop_loss_triggered == p.stop_loss_trigger # 0
        take_profit_triggered == p.take_profit_trigger # 0
        p1 == IF ~stop_loss_triggered /\ ~take_profit_triggered
              THEN [p EXCEPT !.has_is_win = TRUE, !.is_win = 0]
              ELSE p
        p2 == IF stop_loss_triggered
                 /\ (~take_profit_triggered
                     \/ p.stop_loss_trigger < p.take_profit_trigger)
              THEN [p1 EXCEPT !.has_is_win = TRUE, !.is_win = 0 - 1]
              ELSE p1
        p3 == IF take_profit_triggered
                 /\ (~stop_loss_triggered
                     \/ p.take_profit_trigger < p.stop_loss_trigger)
              THEN [p2 EXCEPT !.has_is_win = TRUE, !.is_win = 1]
              ELSE p2
    IN  p3

\* BasePosition.initialize (generate_holding_time only builds a plotting
\* series from start_date and stop_date and is not modelled).
initialize(p, risk, mkt) ==
    LET q == compute_is_win(compute_triggers(get_loss_profit_prices(p, risk), mkt))
    IN  [q EXCEPT !.entry_value = RMul(q.entry_price, q.size),
                  !.stage = "initialized"]

\* Python truth value of an int
Truthy(n) == n # 0

\* Reading self.is_win in compute_exit_info raises AttributeError when
\* compute_is_win assigned nothing.
compute_exit_info_raises(p) == p.stop_date # 0 /\ ~p.has_is_win

\* Variant of Long.compute_exit_info with the two outcomes exchanged
Long_compute_exit_info_exchanged(p) ==
    IF p.stop_date = 0 THEN NaN
    ELSE IF Truthy(p.is_win) THEN p.stop_loss_price ELSE p.take_profit_price

\* Long.compute_exit_info
Long_compute_exit_info(p) ==
    IF p.stop_date = 0 THEN NaN
    ELSE IF Truthy(p.is_win) THEN p.take_profit_price ELSE p.stop_loss_price

\* Short.compute_exit_info
Short_compute_exit_info(p) ==
    IF p.stop_date = 0 THEN NaN
    ELSE IF Truthy(p.is_win) THEN p.stop_loss_price ELSE p.take_profit_price

compute_exit_info(p) ==
    IF p.type = "long" THEN Long_compute_exit_info(p)
                       ELSE Short_compute_exit_info(p)

\* Variant of add_total_position_to_dataframe that counts the position on
\* the half-open interval [start_date, stop_date)
add_total_position_to_dataframe_half_open(df, p) ==
    [df EXCEPT !.open_positions =
        [i \in DOMAIN df.open_positions |->
            IF p.start_date <= i /\ i < p.stop_date
            THEN df.open_positions[i] + 1 ELSE df.open_positions[i]]]

\* BasePosition.add_total_position_to_dataframe
add_total_position_to_dataframe(df, p) ==
    [df EXCEPT !.open_positions =
        [i \in DOMAIN df.open_positions |->
            IF p.start_date <= i /\ i <= p.stop_date
            THEN df.open_positions[i] + 1 ELSE df.open_positions[i]]]

\* Variant of add_units_to_dataframe that writes from start_date to the end
add_units_to_dataframe_open_ended(df, p) ==
    [df EXCEPT !.units =
        [i \in DOMAIN df.units |->
            IF p.start_date <= i
            THEN RAdd(df.units[i], p.size) ELSE df.units[i]]]

\* BasePosition.add_units_to_dataframe
add_units_to_dataframe(df, p) ==
    [df EXCEPT !.units =
        [i \in DOMAIN df.units |->
            IF p.start_date <= i /\ i <= p.stop_date
            THEN RAdd(df.units[i], p.size) ELSE df.units[i]]]

\* Variant of add_holding_to_dataframe that subtracts the holding value
add_holding_to_dataframe_subtracted(df, p, mkt) ==
    [df EXCEPT !.holdings =
        [i \in DOMAIN df.holdings |->
            IF p.start_date <= i /\ i <= p.stop_date
            THEN RSub(df.holdings[i], RMul(p.size, mkt[i].close))
            ELSE df.holdings[i]]]

\* BasePosition.add_holding_to_dataframe
add_holding_to_dataframe(df, p, mkt) ==
    [df EXCEPT !.holdings =
        [i \in DOMAIN df.holdings |->
            IF p.start_date <= i /\ i <= p.stop_date
            THEN RAdd(df.holdings[i], RMul(p.size, mkt[i].close))
            ELSE df.holdings[i]]]

\* Long.add_position_to_dataframe
Long_add_position_to_dataframe(df, p) ==
    [df EXCEPT !.long_positions =
        [i \in DOMAIN df.long_positions |->
            IF p.start_date <= i /\ i <= p.stop_date
            THEN df.long_positions[i] + 1 ELSE df.long_positions[i]]]

\* Short.add_position_to_dataframe
Short_add_position_to_dataframe(df, p) ==
    [df EXCEPT !.short_positions =
        [i \in DOMAIN df.short_positions |->
            IF p.start_date <= i /\ i <= p.stop_date
            THEN df.short_positions[i] + 1 ELSE df.short_positions[i]]]

add_position_to_dataframe(df, p) ==
    IF p.type = "long" THEN Long_add_position_to_dataframe(df, p)
                       ELSE Short_add_position_to_dataframe(df, p)

\* Variant of update_cash that assigns the exit credit instead of adding it
update_cash_assign(df, p) ==
    IF compute_exit_info_raises(p)
    THEN [df |-> df, position |-> p, raised |-> TRUE]
    ELSE
      LET exit_price == compute_exit_info(p)
          entry_spend == RMul(p.entry_price, p.size)
          exit_get == RMul(exit_price, p.size)
          idx == p.stop_date + 1
          debited == [i \in DOMAIN df.cash |->
                        IF i >= p.start_date THEN RSub(df.cash[i], entry_spend)
                                             ELSE df.cash[i]]
          credited == [i \in DOMAIN df.cash |->
                        IF i >= idx THEN exit_get ELSE debited[i]]
      IN  [df |-> [df EXCEPT !.cash = credited],
           position |-> [p EXCEPT !.exit_price = exit_price,
                                  !.entry_spend = entry_spend,
                                  !.exit_get = exit_get],
           raised |-> FALSE]

\* BasePosition.update_cash: the exit price is computed first, so when that
\* raises neither the position nor the dataframe is changed.  Returns the
\* dataframe, the position and whether the call raised.
update_cash(df, p) ==
    IF compute_exit_info_raises(p)
    THEN [df |-> df, position |-> p, raised |-> TRUE]
    ELSE
      LET exit_price == compute_exit_info(p)
          entry_spend == RMul(p.entry_price, p.size)
          exit_get == RMul(exit_price, p.size)
          idx == p.stop_date + 1
          debited == [i \in DOMAIN df.cash |->
                        IF i >= p.start_date THEN RSub(df.cash[i], entry_spend)
                                             ELSE df.cash[i]]
          credited == [i \in DOMAIN df.cash |->
                        IF i >= idx THEN RAdd(debited[i], exit_get)
                                    ELSE debited[i]]
      IN  [df |-> [df EXCEPT !.cash = credited],
           position |-> [p EXCEPT !.exit_price = exit_price,
                                  !.entry_spend = entry_spend,
                                  !.exit_get = exit_get],
           raised |-> FALSE]

\* BasePosition.update_portfolio_dataframe: holdings, side counter and units
\* are written before update_cash, so they stay written when it raises.
update_portfolio_dataframe(df, p, mkt) ==
    LET df1 == add_holding_to_dataframe(df, p, mkt)
        df2 == add_position_to_dataframe(df1, p)
        df3 == add_units_to_dataframe(df2, p)
    IN  update_cash(df3, p)

(***************************************************************************)
(* TradeTide/risk_management.py                                            *)
(***************************************************************************)
\* Variant of get_loss_profit_price that puts the stop-loss at the entry price
get_loss_profit_price_no_stop_offset(lpm, position_type, entry_price) ==
    LET adjustment == RMul(entry_price,
                           IF position_type = "long" THEN lpm.stop_loss
                                                     ELSE lpm.take_profit)
        take_profit_price == IF position_type = "long"
                             THEN RAdd(entry_price, adjustment)
                             ELSE RSub(entry_price, adjustment)
    IN  <<entry_price, take_profit_price>>

\* DirectLossProfitManagement.get_loss_profit_price: returns
\* <<stop_loss_price, take_profit_price>>.
get_loss_profit_price(lpm, position_type, entry_price) ==
    LET adjustment == RMul(entry_price,
                           IF position_type = "long" THEN lpm.stop_loss
                                                     ELSE lpm.take_profit)
        stop_loss_price == IF position_type = "long"
                           THEN RSub(entry_price, adjustment)
                           ELSE RAdd(entry_price, adjustment)
        take_profit_price == IF position_type = "long"
                             THEN RAdd(entry_price, adjustment)
                             ELSE RSub(entry_price, adjustment)
    IN  <<stop_loss_price, take_profit_price>>

(***************************************************************************)
(* TradeTide/capital_managment.py                                          *)
(***************************************************************************)
\* The Position(...) object the managers build from explicit levels, units
\* and entry price; its triggers and outcome are resolved at construction.
Position(start_date, stop_loss_price, take_profit_price, mkt, units, entry_price, position_type) ==
    LET p == [ type |-> position_type,
               start_date |-> start_date,
               available_cash |-> R(0),
               spread |-> R(0),
               entry_price |-> entry_price,
               size |-> units,
               cost |-> R(0),
               is_valid |-> TRUE,
               stop_loss_price |-> stop_loss_price,
               take_profit_price |-> take_profit_price,
               stop_loss_trigger |-> 0,
               take_profit_trigger |-> 0,
               stop_date |-> 0,
               has_is_win |-> FALSE,
               is_win |-> 0,
               entry_value |-> RMul(entry_price, units),
               exit_price |-> R(0),
               entry_spend |-> R(0),
               exit_get |-> R(0),
               stage |-> "initialized" ]
    IN  compute_is_win(compute_triggers(p, mkt))

\* numpy.inf as limit_of_positions: at most one position is opened per bar,
\* so a limit above the number of bars is never reached.
Unbounded == NumBars + 1

\* pandas.DataFrame(index=market.index) with cash = initial_capital and
\* open_positions = 0 at every bar (LimitedCapital.manage, lines 88-90).
new_time_info(mkt, initial_capital) ==
    [ cash |-> [i \in DOMAIN mkt |-> initial_capital],
      open_positions |-> [i \in DOMAIN mkt |-> 0] ]

\* Variant of the limit test that lets one position too many through
limit_of_positions_reached_strict(open_postion_at_date, limit_of_positions) ==
    open_postion_at_date > limit_of_positions

\* LimitedCapital.manage, line 101: open_postion_at_date >= self.limit_of_positions
limit_of_positions_reached(open_postion_at_date, limit_of_positions) ==
    open_postion_at_date >= limit_of_positions

\* LimitedCapital.manage, line 104 and UnlimitedCapital.manage, line 177:
\* the entry price is the close plus the spread, whatever the side.
manager_entry_price(mgr, mkt, date) == RAdd(mkt[date].close, mgr.spread)

\* LimitedCapital.manage, line 105: the units are not rounded
LimitedCapital_units(mgr, mkt, info, date) ==
    LET entry_price == manager_entry_price(mgr, mkt, date)
    IN  RMin(RDiv(RSub(mgr.max_cap_per_trade, mgr.spread), entry_price),
             RDiv(RSub(info.cash[date], mgr.spread), entry_price))

\* UnlimitedCapital.manage, lines 179-180: numpy.floor of the quotient
UnlimitedCapital_units(mgr, mkt, date) ==
    RFloor(RDiv(RSub(mgr.max_cap_per_trade, mgr.spread),
                manager_entry_price(mgr, mkt, date)))

\* Variant of the signal test that lets a zero signal through
signal_is_zero_never(sgn) == FALSE

\* `signal == 0` (line 101) and `signal.loc[date] != 0` (line 175)
signal_is_zero(sgn) == sgn = 0

\* Variant of the size test that only rejects negative sizes
units_below_one_lax(units) == RLt(units, R(0))

\* `if units < 1: continue` (lines 106-107 and 182-183)
units_below_one(units) == RLt(units, R(1))

\* What one iteration of the loop of LimitedCapital.manage does at a date:
\* "skip" (continue), "raise" (update_cash raised) or "open".
LimitedCapital_iteration(mgr, mkt, sig, info, date) ==
    LET cash_at_date == info.cash[date]
        open_postion_at_date == info.open_positions[date]
        sgn == sig[date]
        entry_price == manager_entry_price(mgr, mkt, date)
        units == LimitedCapital_units(mgr, mkt, info, date)
        position_cost == RAdd(RMul(units, entry_price), mgr.spread)
        position_type == IF sgn > 0 THEN "long" ELSE "short"
        levels == get_loss_profit_price(mgr.loss_profit_managment,
                                        position_type, entry_price)
        position == Position(date, levels[1], levels[2], mkt, units,
                             entry_price, position_type)
        cashed == update_cash(info, position)
        skipped == [outcome |-> "skip", time_info |-> info, position |-> position]
    IN  IF signal_is_zero(sgn)
           \/ limit_of_positions_reached(open_postion_at_date,
                                         mgr.limit_of_positions)
        THEN skipped
        ELSE IF units_below_one(units) THEN skipped
        ELSE IF RLt(info.cash[date], position_cost) THEN skipped
        ELSE IF cashed.raised
             THEN [outcome |-> "raise", time_info |-> info, position |-> position]
        ELSE [outcome |-> "open",
              time_info |-> add_total_position_to_dataframe(cashed.df, cashed.position),
              position |-> cashed.position]

\* signals[signals.diff().fillna(0) != 0].index, in chronological order
new_positions_idx(sig) ==
    LET changed == {i \in DOMAIN sig : i > 1 /\ sig[i] # sig[i - 1]}
        RECURSIVE sorted(_)
        sorted(S) == IF S = {} THEN <<>>
                     ELSE <<SetMin(S)>> \o sorted(S \ {SetMin(S)})
    IN  sorted(changed)

\* What one iteration of the loop of UnlimitedCapital.manage does at a date.
UnlimitedCapital_iteration(mgr, mkt, sig, pf, date) ==
    LET sgn == sig[date]
        entry_price == manager_entry_price(mgr, mkt, date)
        units == UnlimitedCapital_units(mgr, mkt, date)
        position_type == IF sgn > 0 THEN "long" ELSE "short"
        levels == get_loss_profit_price(mgr.loss_profit_managment,
                                        position_type, entry_price)
        position == Position(date, levels[1], levels[2], mkt, units,
                             entry_price, position_type)
        cashed == update_cash(pf, position)
        skipped == [outcome |-> "skip", portfolio |-> pf, position |-> position]
    IN  IF signal_is_zero(sgn) THEN skipped
        ELSE IF units_below_one(units) THEN skipped
        ELSE IF cashed.raised
             THEN [outcome |-> "raise", portfolio |-> pf, position |-> position]
        ELSE [outcome |-> "open", portfolio |-> cashed.df,
              position |-> cashed.position]

(***************************************************************************)
(* The portfolio dataframe before any position is written to it: cash is   *)
(* the initial capital at every bar, every other column is zero.           *)
(***************************************************************************)
InitialCapital == R(12)

InitialLedger ==
    [ cash |-> [i \in Bars |-> InitialCapital],
      holdings |-> [i \in Bars |-> R(0)],
      units |-> [i \in Bars |-> R(0)],
      long_positions |-> [i \in Bars |-> 0],
      short_positions |-> [i \in Bars |-> 0] ]

RiskChoices ==
    { [stop_loss |-> R(1), take_profit |-> R(1)],
      [stop_loss |-> R(1), take_profit |-> R(2)] }

CashChoices == {R(7)}

PositionTypes == {"long", "short"}

NoManager == [variant |-> "none"]

NoTimeInfo == [cash |-> <<>>, open_positions |-> <<>>]

\* first_run before manage() has been called a second time
NoRun == [done |-> FALSE]

(***************************************************************************)
(* Specification of the position lifecycle: positions are constructed and  *)
(* initialized over a market, then each is written to the portfolio        *)
(* dataframe, in any order.  A call that raised leaves its position in     *)
(* stage "failed".                                                         *)
(***************************************************************************)
Init ==
    /\ market \in Markets
    /\ risk_management \in RiskChoices
    /\ available_cash \in CashChoices
    /\ positions = <<>>
    /\ portfolio = InitialLedger
    /\ raised = FALSE
    /\ manager = NoManager
    /\ signal = <<>>
    /\ time_info = NoTimeInfo
    /\ position_list = <<>>
    /\ cursor = 0
    /\ first_run = NoRun
    /\ ComponentsIdle

manager_vars == <<manager, signal, time_info, position_list, cursor, first_run>>

\* Long(...) / Short(...): the dataclass constructor runs __post_init__.
\* Positions are created in chronological order, at most one per bar, as a
\* pass over the bars of the market creates them.
Construct(type, start_date) ==
    /\ \A k \in DOMAIN positions : positions[k].start_date < start_date
    /\ \A k \in DOMAIN positions : positions[k].stage = "initialized"
    /\ positions' = Append(positions,
                           post_init(type, start_date, available_cash, market))
    /\ UNCHANGED <<market, risk_management, available_cash, portfolio, raised>>
    /\ UNCHANGED manager_vars
    /\ UNCHANGED component_vars

\* position.initialize()
Initialize(k) ==
    /\ positions[k].stage = "constructed"
    /\ positions' = [positions EXCEPT
                       ![k] = initialize(positions[k], risk_management, market)]
    /\ UNCHANGED <<market, risk_management, available_cash, portfolio, raised>>
    /\ UNCHANGED manager_vars
    /\ UNCHANGED component_vars

\* position.update_portfolio_dataframe(dataframe=portfolio)
UpdatePortfolio(k) ==
    /\ \A j \in DOMAIN positions : positions[j].stage # "constructed"
    /\ positions[k].stage = "initialized"
    /\ LET result == update_portfolio_dataframe(portfolio, positions[k], market)
       IN  /\ portfolio' = result.df
           /\ positions' = [positions EXCEPT
                  ![k] = [result.position EXCEPT
                            !.stage = IF result.raised THEN "failed"
                                                       ELSE "updated"]]
    /\ UNCHANGED <<market, risk_management, available_cash, raised>>
    /\ UNCHANGED manager_vars
    /\ UNCHANGED component_vars

Next ==
    \/ \E type \in PositionTypes, start_date \in Bars : Construct(type, start_date)
    \/ \E k \in DOMAIN positions : Initialize(k)
    \/ \E k \in DOMAIN positions : UpdatePortfolio(k)

Spec == Init /\ [][Next]_vars

(***************************************************************************)
(* Specification of the capital managers: manage() is called once on a     *)
(* market and a signal series and walks its loop one iteration per step.   *)
(* cursor = 0 before the call; afterwards it is the position of the next   *)
(* loop iteration.                                                         *)
(***************************************************************************)
Signals == [Bars -> {0 - 1, 0, 1}]

LossProfitChoices == { [stop_loss |-> <<1, 2>>, take_profit |-> <<1, 4>>] }

MaxCapPerTrade == R(4)

LimitChoices == {0, 1, 2}

LimitedManagers ==
    { [ variant |-> "limited",
        spread |-> R(sp),
        loss_profit_managment |-> lpm,
        initial_capital |-> InitialCapital,
        max_cap_per_trade |-> MaxCapPerTrade,
        limit_of_positions |-> lim ] :
      sp \in Spreads, lpm \in LossProfitChoices, lim \in LimitChoices }

UnlimitedManagers ==
    { [ variant |-> "unlimited",
        spread |-> R(sp),
        loss_profit_managment |-> lpm,
        max_cap_per_trade |-> MaxCapPerTrade,
        limit_of_positions |-> Unbounded ] :
      sp \in Spreads, lpm \in LossProfitChoices }

InitManage ==
    /\ market \in {m \in Markets : \A i \in Bars : m[i].spread = R(0)}
    /\ signal \in Signals
    /\ manager \in LimitedManagers \cup UnlimitedManagers
    /\ time_info = NoTimeInfo
    /\ position_list = <<>>
    /\ cursor = 0
    /\ portfolio = InitialLedger
    /\ raised = FALSE
    /\ risk_management = [stop_loss |-> R(0), take_profit |-> R(0)]
    /\ available_cash = R(0)
    /\ positions = <<>>
    /\ first_run = NoRun
    /\ ComponentsIdle

position_vars == <<risk_management, available_cash, positions>>

\* LimitedCapital.manage, lines 86-93: fresh running ledger, empty list
LimitedManageBegin ==
    /\ manager.variant = "limited"
    /\ cursor = 0
    /\ time_info' = new_time_info(market, manager.initial_capital)
    /\ position_list' = <<>>
    /\ cursor' = 1
    /\ UNCHANGED <<market, signal, manager, portfolio, raised>>
    /\ UNCHANGED position_vars
    /\ UNCHANGED component_vars
    /\ UNCHANGED first_run

\* LimitedCapital.manage, lines 96-133: one iteration of `for date in market.index`
LimitedManageStep ==
    /\ manager.variant = "limited"
    /\ ~raised
    /\ cursor \in DOMAIN market
    /\ LET it == LimitedCapital_iteration(manager, market, signal, time_info, cursor)
       IN  /\ time_info' = it.time_info
           /\ raised' = (it.outcome = "raise")
           /\ position_list' = IF it.outcome = "open"
                               THEN Append(position_list, it.position)
                               ELSE position_list
    /\ cursor' = cursor + 1
    /\ UNCHANGED <<market, signal, manager, portfolio>>
    /\ UNCHANGED position_vars
    /\ UNCHANGED component_vars
    /\ UNCHANGED first_run

\* UnlimitedCapital.manage, lines 166-170
UnlimitedManageBegin ==
    /\ manager.variant = "unlimited"
    /\ cursor = 0
    /\ position_list' = <<>>
    /\ cursor' = 1
    /\ UNCHANGED <<market, signal, manager, time_info, portfolio, raised>>
    /\ UNCHANGED position_vars
    /\ UNCHANGED component_vars
    /\ UNCHANGED first_run

\* UnlimitedCapital.manage, lines 173-204: one iteration of
\* `for date in new_positions_idx`
UnlimitedManageStep ==
    /\ manager.variant = "unlimited"
    /\ ~raised
    /\ cursor \in DOMAIN new_positions_idx(signal)
    /\ LET date == new_positions_idx(signal)[cursor]
           it == UnlimitedCapital_iteration(manager, market, signal, portfolio, date)
       IN  /\ portfolio' = it.portfolio
           /\ raised' = (it.outcome = "raise")
           /\ position_list' = IF it.outcome = "open"
                               THEN Append(position_list, it.position)
                               ELSE position_list
    /\ cursor' = cursor + 1
    /\ UNCHANGED <<market, signal, manager, time_info>>
    /\ UNCHANGED position_vars
    /\ UNCHANGED component_vars
    /\ UNCHANGED first_run

NextManage ==
    \/ LimitedManageBegin
    \/ LimitedManageStep
    \/ UnlimitedManageBegin
    \/ UnlimitedManageStep

SpecManage == InitManage /\ [][NextManage]_vars

(***************************************************************************)
(* Specification of a re-run: after manage() has returned, it is called a  *)
(* second time on the same manager and backtester objects.  first_run      *)
(* keeps what the first call left behind.                                  *)
(***************************************************************************)
\* manage() has been called and its loop has no iteration left
PassIsOver ==
    /\ cursor > 0
    /\ IF manager.variant = "limited"
       THEN cursor > Len(market)
       ELSE cursor > Len(new_positions_idx(signal))

\* manager.manage(backtester, market) is called again after it returned:
\* nothing of the manager or the backtester is touched between the calls.
ManageAgain ==
    /\ first_run = NoRun
    /\ PassIsOver
    /\ ~raised
    /\ first_run' = [done |-> TRUE,
                     position_list |-> position_list,
                     time_info |-> time_info,
                     portfolio |-> portfolio]
    /\ cursor' = 0
    /\ UNCHANGED <<market, signal, manager, time_info, position_list,
                   portfolio, raised>>
    /\ UNCHANGED position_vars
    /\ UNCHANGED component_vars

NextRerun ==
    \/ LimitedManageBegin
    \/ LimitedManageStep
    \/ UnlimitedManageBegin
    \/ UnlimitedManageStep
    \/ ManageAgain

SpecRerun == InitManage /\ [][NextRerun]_vars

\* The aggregation step: every accepted position, in list order, is written
\* to the portfolio dataframe with update_portfolio_dataframe.
RECURSIVE aggregate(_, _, _, _)
aggregate(df, ps, mkt, k) ==
    IF k > Len(ps) THEN df
    ELSE aggregate(update_portfolio_dataframe(df, ps[k], mkt).df, ps, mkt, k + 1)

\* Every variable of the position lifecycle and of the capital managers in
\* the state before anything is constructed
TradingIdle ==
    /\ market = <<>>
    /\ risk_management = [stop_loss |-> R(0), take_profit |-> R(0)]
    /\ available_cash = R(0)
    /\ positions = <<>>
    /\ portfolio = InitialLedger
    /\ manager = NoManager
    /\ signal = <<>>
    /\ time_info = NoTimeInfo
    /\ position_list = <<>>
    /\ cursor = 0
    /\ raised = FALSE
    /\ first_run = NoRun

trading_vars == <<market, risk_management, available_cash, positions, portfolio, manager, signal, time_info, position_list, cursor, raised, first_run>>

(***************************************************************************)
(* TradeTide/risk_management.py: TrailingStopLossManagement.  One object   *)
(* follows one position: set_initial_conditions at entry, then, bar after  *)
(* bar, update_extreme_price with the bar's price and get_loss_profit_price.*)
(* prices keeps the prices supplied so far and returned the levels         *)
(* returned so far, each with the extreme price at the time of the call.   *)
(***************************************************************************)
RMax(x, y) == IF RLt(x, y) THEN y ELSE x

TrailingStops == {R(1)}

TrailingProfits == {R(2)}

EntryPrices == {R(2), R(3)}

CurrentPrices == {R(1), R(2), R(3), R(4)}

\* TrailingStopLossManagement.__init__
TrailingStopLossManagement(trailing_stop, trailing_profit) ==
    [ stage |-> "constructed",
      trailing_stop |-> trailing_stop,
      trailing_profit |-> trailing_profit,
      position_type |-> "none",
      entry_price |-> R(0),
      initial_stop_loss |-> R(0),
      initial_take_profit |-> R(0),
      extreme_price |-> R(0),
      prices |-> <<>>,
      returned |-> <<>> ]

\* TrailingStopLossManagement.set_initial_conditions
set_initial_conditions(self, position_type, entry_price) ==
    IF position_type = "long"
    THEN [self EXCEPT !.stage = "tracking",
                      !.position_type = position_type,
                      !.entry_price = entry_price,
                      !.initial_stop_loss = RSub(entry_price, self.trailing_stop),
                      !.initial_take_profit = RAdd(entry_price, self.trailing_profit),
                      !.extreme_price = entry_price]
    ELSE [self EXCEPT !.stage = "tracking",
                      !.position_type = position_type,
                      !.entry_price = entry_price,
                      !.initial_stop_loss = RAdd(entry_price, self.trailing_stop),
                      !.initial_take_profit = RSub(entry_price, self.trailing_profit),
                      !.extreme_price = entry_price]

\* Variant of update_extreme_price that takes every price as the new extreme
update_extreme_price_unconditional(self, position_type, current_price) ==
    [self EXCEPT !.extreme_price = current_price]

\* TrailingStopLossManagement.update_extreme_price
update_extreme_price(self, position_type, current_price) ==
    IF position_type = "long" /\ RLt(self.extreme_price, current_price)
    THEN [self EXCEPT !.extreme_price = current_price]
    ELSE IF position_type = "short" /\ RLt(current_price, self.extreme_price)
    THEN [self EXCEPT !.extreme_price = current_price]
    ELSE self

\* TrailingStopLossManagement.get_loss_profit_price: returns
\* <<stop_loss_price, take_profit_price>>.
Trailing_get_loss_profit_price(self, position_type, entry_price) ==
    IF position_type = "long"
    THEN LET adjusted_stop_loss == RSub(self.extreme_price, self.trailing_stop)
             adjusted_take_profit == RAdd(self.extreme_price, self.trailing_profit)
         IN  <<RMax(self.initial_stop_loss, adjusted_stop_loss),
               RMax(self.initial_take_profit, adjusted_take_profit)>>
    ELSE LET adjusted_stop_loss == RAdd(self.extreme_price, self.trailing_stop)
             adjusted_take_profit == RSub(self.extreme_price, self.trailing_profit)
         IN  <<RMin(self.initial_stop_loss, adjusted_stop_loss),
               RMin(self.initial_take_profit, adjusted_take_profit)>>

InitTrailing ==
    /\ TradingIdle
    /\ trailing \in { TrailingStopLossManagement(ts, tp) :
                         ts \in TrailingStops, tp \in TrailingProfits }
    /\ metrics = Idle
    /\ conversion = Idle
    /\ loaded = Idle
    /\ sizing = Idle

SetInitialConditions(position_type, entry_price) ==
    /\ trailing.stage = "constructed"
    /\ trailing' = set_initial_conditions(trailing, position_type, entry_price)
    /\ UNCHANGED <<metrics, conversion, loaded, sizing>>
    /\ UNCHANGED trading_vars

\* One bar of the position's life: the bar's price is supplied
UpdateExtremePrice(current_price) ==
    /\ trailing.stage = "tracking"
    /\ Len(trailing.prices) < NumBars
    /\ trailing' = [update_extreme_price(trailing, trailing.position_type,
                                         current_price)
                      EXCEPT !.prices = Append(trailing.prices, current_price)]
    /\ UNCHANGED <<metrics, conversion, loaded, sizing>>
    /\ UNCHANGED trading_vars

\* The levels are asked for, at most once per supplied price and once at entry
GetLossProfitPrice ==
    /\ trailing.stage = "tracking"
    /\ Len(trailing.returned) <= Len(trailing.prices)
    /\ trailing' = [trailing EXCEPT !.returned =
          Append(trailing.returned,
                 [levels |-> Trailing_get_loss_profit_price(
                                 trailing, trailing.position_type,
                                 trailing.entry_price),
                  extreme_price |-> trailing.extreme_price,
                  supplied |-> Len(trailing.prices)])]
    /\ UNCHANGED <<metrics, conversion, loaded, sizing>>
    /\ UNCHANGED trading_vars

NextTrailing ==
    \/ \E position_type \in PositionTypes, entry_price \in EntryPrices :
          SetInitialConditions(position_type, entry_price)
    \/ \E current_price \in CurrentPrices : UpdateExtremePrice(current_price)
    \/ GetLossProfitPrice

SpecTrailing == InitTrailing /\ [][NextTrailing]_vars

(***************************************************************************)
(* Specification of one worked scenario: a market of five bars with closes *)
(* 100, 101, 99, 102, 105 (low = high = close, spread 0), the signal       *)
(* 0, 1, 0, 0, -1 and DirectLossProfitManagement('2%', '2%'), run through  *)
(* manage() of managers that differ in variant, limit, capital per trade   *)
(* and initial capital.                                                    *)
(***************************************************************************)
ScenarioCloses == <<100, 101, 99, 102, 105>>

ScenarioMarket ==
    [i \in DOMAIN ScenarioCloses |->
        [low |-> R(ScenarioCloses[i]), close |-> R(ScenarioCloses[i]),
         high |-> R(ScenarioCloses[i]), spread |-> R(0)]]

ScenarioSignal == <<0, 1, 0, 0, 0 - 1>>

\* percent_to_float('2%')
ScenarioLossProfit == [stop_loss |-> <<1, 50>>, take_profit |-> <<1, 50>>]

ScenarioCapitals == {R(1000), R(2000)}

ScenarioMaxCaps == {R(150), R(250), R(500)}

ScenarioManagers ==
    { [ variant |-> "limited",
        spread |-> R(0),
        loss_profit_managment |-> ScenarioLossProfit,
        initial_capital |-> cap,
        max_cap_per_trade |-> mc,
        limit_of_positions |-> lim ] :
      cap \in ScenarioCapitals, mc \in ScenarioMaxCaps, lim \in {1, 2} }
    \cup
    { [ variant |-> "unlimited",
        spread |-> R(0),
        loss_profit_managment |-> ScenarioLossProfit,
        max_cap_per_trade |-> mc,
        limit_of_positions |-> Unbounded ] :
      mc \in ScenarioMaxCaps }

ScenarioLedger(initial_capital) ==
    [ cash |-> [i \in DOMAIN ScenarioMarket |-> initial_capital],
      holdings |-> [i \in DOMAIN ScenarioMarket |-> R(0)],
      units |-> [i \in DOMAIN ScenarioMarket |-> R(0)],
      long_positions |-> [i \in DOMAIN ScenarioMarket |-> 0],
      short_positions |-> [i \in DOMAIN ScenarioMarket |-> 0] ]

InitScenario ==
    /\ market = ScenarioMarket
    /\ signal = ScenarioSignal
    /\ manager \in ScenarioManagers
    /\ \E cap \in ScenarioCapitals : portfolio = ScenarioLedger(cap)
    /\ time_info = NoTimeInfo
    /\ position_list = <<>>
    /\ cursor = 0
    /\ raised = FALSE
    /\ risk_management = [stop_loss |-> R(0), take_profit |-> R(0)]
    /\ available_cash = R(0)
    /\ positions = <<>>
    /\ first_run = NoRun
    /\ ComponentsIdle

SpecScenario == InitScenario /\ [][NextManage]_vars

(***************************************************************************)
(* TradeTide/backtester.py: the performance metrics.  The portfolio holds  *)
(* a column total; back_test derives the column returns from it and        *)
(* calculate_performance_metrics derives the metrics from both.  A float   *)
(* is a record: kind "num" with an exact value, or "nan", "inf", "-inf".   *)
(* The Sharpe ratio of a finite, nonzero deviation is kept as its sign and *)
(* its square over 252, which determine it.                                *)
(***************************************************************************)
Totals == {1, 2, 3, 4}

Num(x) == [kind |-> "num", value |-> x]

NotANumber == [kind |-> "nan"]

Infinity == [kind |-> "inf"]

MinusInfinity == [kind |-> "-inf"]

\* Series.pct_change: NaN at the first bar, total[i] / total[i - 1] - 1 after
pct_change(total) ==
    [i \in DOMAIN total |->
        IF i = 1 THEN NotANumber
        ELSE Num(RSub(RDiv(R(total[i]), R(total[i - 1])), R(1)))]

\* The values of a series that are not NaN, in order
RECURSIVE dropna(_)
dropna(series) ==
    IF series = <<>> THEN <<>>
    ELSE IF Head(series).kind = "nan" THEN dropna(Tail(series))
    ELSE <<Head(series).value>> \o dropna(Tail(series))

RECURSIVE RSum(_)
RSum(values) ==
    IF values = <<>> THEN R(0) ELSE RAdd(Head(values), RSum(Tail(values)))

\* Series.mean: NaN values are skipped; NaN when nothing is left
Series_mean(series) ==
    LET values == dropna(series)
    IN  IF values = <<>> THEN NotANumber
        ELSE Num(RDiv(RSum(values), R(Len(values))))

\* The square of Series.std (ddof = 1): NaN values are skipped; NaN when
\* fewer than two values are left
Series_var(series) ==
    LET values == dropna(series)
        mean == RDiv(RSum(values), R(Len(values)))
        squares == [i \in DOMAIN values |->
                      RMul(RSub(values[i], mean), RSub(values[i], mean))]
    IN  IF Len(values) < 2 THEN NotANumber
        ELSE Num(RDiv(RSum(squares), R(Len(values) - 1)))

\* daily_returns.mean() / daily_returns.std() * numpy.sqrt(252), in IEEE
\* arithmetic: 0 / 0 is NaN, x / 0 is +inf or -inf by the sign of x
sharpe_ratio(mean, var) ==
    IF mean.kind = "nan" \/ var.kind = "nan" THEN NotANumber
    ELSE IF var.value = R(0)
         THEN (IF mean.value = R(0) THEN NotANumber
               ELSE IF RLt(mean.value, R(0)) THEN MinusInfinity
               ELSE Infinity)
    ELSE [kind |-> "num",
          sign |-> IF RLt(mean.value, R(0)) THEN 0 - 1
                   ELSE IF mean.value = R(0) THEN 0 ELSE 1,
          square_over_252 |-> RDiv(RMul(mean.value, mean.value), var.value)]

\* wins / losses if losses != 0 else numpy.inf
win_loss_ratio(returns) ==
    LET wins == Cardinality({i \in DOMAIN returns :
                    returns[i].kind = "num" /\ RLt(R(0), returns[i].value)})
        losses == Cardinality({i \in DOMAIN returns :
                    returns[i].kind = "num" /\ RLt(returns[i].value, R(0))})
    IN  IF losses # 0 THEN Num(RDiv(R(wins), R(losses))) ELSE Infinity

InitMetrics ==
    /\ TradingIdle
    /\ \E total \in [Bars -> Totals] :
          metrics = [stage |-> "portfolio", total |-> total]
    /\ trailing = Idle
    /\ conversion = Idle
    /\ loaded = Idle
    /\ sizing = Idle

\* BackTester.calculate_units_and_portfolio, line 148
ComputeReturns ==
    /\ metrics.stage = "portfolio"
    /\ metrics' = [stage |-> "returns", total |-> metrics.total,
                   returns |-> pct_change(metrics.total)]
    /\ UNCHANGED <<trailing, conversion, loaded, sizing>>
    /\ UNCHANGED trading_vars

\* BackTester.calculate_performance_metrics
CalculatePerformanceMetrics ==
    /\ metrics.stage = "returns"
    /\ metrics' = [stage |-> "metrics", total |-> metrics.total,
                   returns |-> metrics.returns,
                   mean |-> Series_mean(metrics.returns),
                   var |-> Series_var(metrics.returns),
                   sharpe_ratio |-> sharpe_ratio(Series_mean(metrics.returns),
                                                 Series_var(metrics.returns)),
                   win_loss_ratio |-> win_loss_ratio(metrics.returns)]
    /\ UNCHANGED <<trailing, conversion, loaded, sizing>>
    /\ UNCHANGED trading_vars

NextMetrics ==
    \/ ComputeReturns
    \/ CalculatePerformanceMetrics

SpecMetrics == InitMetrics /\ [][NextMetrics]_vars

(***************************************************************************)
(* TradeTide/tools.py: percent_to_float.  A string is a sequence of        *)
(* characters; float() of a string is its exact decimal value, or a        *)
(* ValueError when the string is not an optional sign followed by digits   *)
(* with at most one point and at least one digit.                          *)
(***************************************************************************)
MaxLen == 3

Characters == {"4", "2", ".", ",", "%", "-"}

Digits == {"4", "2"}

Strings == UNION { [1..n -> Characters] : n \in 0..MaxLen }

NumberInputs == {R(42), <<157, 50>>, R(0 - 10)}

PercentInputs ==
    { [type |-> "number", value |-> x] : x \in NumberInputs }
    \cup { [type |-> "str", chars |-> c] : c \in Strings }

DigitValue(c) == IF c = "4" THEN 4 ELSE 2

RECURSIVE Pow10(_)
Pow10(n) == IF n = 0 THEN 1 ELSE 10 * Pow10(n - 1)

\* The integer a sequence of digits denotes (0 for the empty sequence)
RECURSIVE DigitsValue(_)
DigitsValue(chars) ==
    IF chars = <<>> THEN 0
    ELSE 10 * DigitsValue(SubSeq(chars, 1, Len(chars) - 1))
         + DigitValue(chars[Len(chars)])

\* str.replace(',', '.')
replace_comma(chars) ==
    [i \in DOMAIN chars |-> IF chars[i] = "," THEN "." ELSE chars[i]]

\* string[:-1]
drop_last(chars) ==
    IF chars = <<>> THEN <<>> ELSE SubSeq(chars, 1, Len(chars) - 1)

\* float(string): [ok |-> TRUE, value] or [ok |-> FALSE] for a ValueError
float_of(chars) ==
    LET signed == chars # <<>> /\ chars[1] = "-"
        body == IF signed THEN Tail(chars) ELSE chars
        points == {i \in DOMAIN body : body[i] = "."}
        wellformed ==
            /\ \A i \in DOMAIN body : body[i] \in Digits \cup {"."}
            /\ Cardinality(points) <= 1
            /\ \E i \in DOMAIN body : body[i] \in Digits
        point == IF points = {} THEN Len(body) + 1 ELSE CHOOSE i \in points : TRUE
        whole == SubSeq(body, 1, point - 1)
        fraction == SubSeq(body, point + 1, Len(body))
        magnitude == RAdd(R(DigitsValue(whole)),
                          RDiv(R(DigitsValue(fraction)), R(Pow10(Len(fraction)))))
    IN  IF ~wellformed THEN [ok |-> FALSE]
        ELSE [ok |-> TRUE,
              value |-> IF signed THEN RSub(R(0), magnitude) ELSE magnitude]

\* percent_to_float
percent_to_float(string_value) ==
    IF string_value.type = "number"
    THEN [ok |-> TRUE, value |-> string_value.value]
    ELSE LET parsed == float_of(drop_last(replace_comma(string_value.chars)))
         IN  IF parsed.ok
             THEN [ok |-> TRUE, value |-> RDiv(parsed.value, R(100))]
             ELSE parsed

InitConversion ==
    /\ TradingIdle
    /\ \E input \in PercentInputs :
          conversion = [stage |-> "called", input |-> input]
    /\ trailing = Idle
    /\ metrics = Idle
    /\ loaded = Idle
    /\ sizing = Idle

\* One call of percent_to_float returns or raises
PercentToFloat ==
    /\ conversion.stage = "called"
    /\ conversion' = [stage |-> "returned", input |-> conversion.input,
                      result |-> percent_to_float(conversion.input)]
    /\ UNCHANGED <<trailing, metrics, loaded, sizing>>
    /\ UNCHANGED trading_vars

NextConversion == PercentToFloat

SpecConversion == InitConversion /\ [][NextConversion]_vars

(***************************************************************************)
(* TradeTide/loader.py and TradeTide/tools.py: loading market data.  The   *)
(* file's rows carry a timestamp each; get_market_data and get_dataframe   *)
(* read them, assert that the column is monotonic increasing and add the   *)
(* differences between consecutive timestamps.                             *)
(***************************************************************************)
Timestamps == 1..(NumBars + 1)

\* pandas Series.is_monotonic_increasing: each value is greater than or
\* equal to the one before it
is_monotonic_increasing(dates) ==
    \A i \in DOMAIN dates : i > 1 => dates[i - 1] <= dates[i]

\* Series.diff(): nothing at the first row, the difference after
diff(dates) ==
    [i \in DOMAIN dates |-> IF i = 1 THEN NaN ELSE R(dates[i] - dates[i - 1])]

\* loader.get_market_data: the dataframe indexed by date, or AssertionError
get_market_data(dates) ==
    IF ~is_monotonic_increasing(dates)
    THEN [stage |-> "failed", dates |-> dates, error |-> "AssertionError"]
    ELSE [stage |-> "loaded", dates |-> dates, index |-> dates,
          time_delta |-> diff(dates)]

\* tools.get_dataframe: the dataframe with its date column, or AssertionError
get_dataframe(dates) ==
    IF ~is_monotonic_increasing(dates)
    THEN [stage |-> "failed", dates |-> dates, error |-> "AssertionError"]
    ELSE [stage |-> "loaded", dates |-> dates, index |-> [i \in DOMAIN dates |-> i],
          time_delta |-> diff(dates)]

InitLoad ==
    /\ TradingIdle
    /\ \E dates \in [Bars -> Timestamps] :
          loaded = [stage |-> "file", dates |-> dates]
    /\ trailing = Idle
    /\ metrics = Idle
    /\ conversion = Idle
    /\ sizing = Idle

GetMarketData ==
    /\ loaded.stage = "file"
    /\ loaded' = get_market_data(loaded.dates)
    /\ UNCHANGED <<trailing, metrics, conversion, sizing>>
    /\ UNCHANGED trading_vars

GetDataframe ==
    /\ loaded.stage = "file"
    /\ loaded' = get_dataframe(loaded.dates)
    /\ UNCHANGED <<trailing, metrics, conversion, sizing>>
    /\ UNCHANGED trading_vars

NextLoad ==
    \/ GetMarketData
    \/ GetDataframe

SpecLoad == InitLoad /\ [][NextLoad]_vars

(***************************************************************************)
(* TradeTide/capital_managment.py, LimitedCapital.manage, lines 104-111    *)
(* and 130, in floating-point arithmetic: every operation returns the      *)
(* exact result rounded to the nearest float, ties to even.  A float has   *)
(* MantissaBits significant bits (53 in Python); exponents are unbounded.  *)
(***************************************************************************)
MantissaBits == 4

RECURSIVE Pow2(_)
Pow2(n) == IF n = 0 THEN 1 ELSE 2 * Pow2(n - 1)

\* The exponent e with 2^(MantissaBits-1) <= a / 2^e < 2^MantissaBits, a > 0
RECURSIVE FloatExponent(_)
FloatExponent(a) ==
    IF RLe(R(Pow2(MantissaBits)), a) THEN FloatExponent(RDiv(a, R(2))) + 1
    ELSE IF RLt(a, R(Pow2(MantissaBits - 1))) THEN FloatExponent(RMul(a, R(2))) - 1
    ELSE 0

\* 2^e as a rational, e of either sign
RPow2(e) == IF e >= 0 THEN R(Pow2(e)) ELSE RDiv(R(1), R(Pow2(0 - e)))

\* The float nearest to the exact value x, ties to the even significand
RoundToFloat(x) ==
    IF x[1] = 0 THEN R(0)
    ELSE LET a == <<Abs(x[1]), x[2]>>
             e == FloatExponent(a)
             scaled == RDiv(a, RPow2(e))
             below == RFloor(scaled)
             rest == RSub(scaled, below)
             significand ==
                 IF RLt(rest, <<1, 2>>) THEN below[1]
                 ELSE IF RLt(<<1, 2>>, rest) THEN below[1] + 1
                 ELSE IF below[1] % 2 = 0 THEN below[1] ELSE below[1] + 1
             magnitude == RMul(R(significand), RPow2(e))
         IN  IF x[1] < 0 THEN RSub(R(0), magnitude) ELSE magnitude

FAdd(x, y) == RoundToFloat(RAdd(x, y))

FSub(x, y) == RoundToFloat(RSub(x, y))

FMul(x, y) == RoundToFloat(RMul(x, y))

FDiv(x, y) == RoundToFloat(RDiv(x, y))

SizingCash == {R(9), R(10), R(11), R(12), R(13), R(14), R(15)}

SizingCloses == {R(3), R(5), R(6), R(7)}

SizingSpreads == {R(0), <<1, 2>>, R(1)}

SizingMaxCaps == {R(2), R(8), R(16)}

\* Variant of the size computation that takes the larger of the two budgets
Sizing_units_of_larger_budget(max_cap_per_trade, spread, cash_at_date, entry_price) ==
    RMax(FDiv(FSub(max_cap_per_trade, spread), entry_price),
         FDiv(FSub(cash_at_date, spread), entry_price))

\* line 105: min((max_cap_per_trade - spread) / entry_price,
\*               (cash_at_date - spread) / entry_price)
Sizing_units(max_cap_per_trade, spread, cash_at_date, entry_price) ==
    RMin(FDiv(FSub(max_cap_per_trade, spread), entry_price),
         FDiv(FSub(cash_at_date, spread), entry_price))

\* lines 104-111 for one bar with a nonzero signal and a free slot
LimitedCapital_sizing(max_cap_per_trade, spread, cash_at_date, close) ==
    LET entry_price == FAdd(close, spread)
        units == Sizing_units(max_cap_per_trade, spread, cash_at_date, entry_price)
        position_cost == FAdd(FMul(units, entry_price), spread)
    IN  [ stage |-> "sized",
          max_cap_per_trade |-> max_cap_per_trade,
          spread |-> spread,
          cash |-> cash_at_date,
          close |-> close,
          entry_price |-> entry_price,
          units |-> units,
          position_cost |-> position_cost,
          outcome |-> IF RLt(units, R(1)) THEN "units_below_one"
                      ELSE IF RLt(cash_at_date, position_cost)
                           THEN "insufficient_cash"
                      ELSE "accepted" ]

InitSizing ==
    /\ TradingIdle
    /\ \E cash \in SizingCash, close \in SizingCloses,
          spread \in SizingSpreads, max_cap \in SizingMaxCaps :
          sizing = [ stage |-> "bar", max_cap_per_trade |-> max_cap,
                     spread |-> spread, cash |-> cash, close |-> close ]
    /\ trailing = Idle
    /\ metrics = Idle
    /\ conversion = Idle
    /\ loaded = Idle

\* lines 104-111: the size, the cost and the decision of the bar
SizePosition ==
    /\ sizing.stage = "bar"
    /\ sizing' = LimitedCapital_sizing(sizing.max_cap_per_trade, sizing.spread,
                                       sizing.cash, sizing.close)
    /\ UNCHANGED <<trailing, metrics, conversion, loaded>>
    /\ UNCHANGED trading_vars

\* line 130, position.update_cash(time_info) at the entry bar:
\* cash -= entry_price * size
DebitEntry ==
    /\ sizing.stage = "sized"
    /\ sizing.outcome = "accepted"
    /\ sizing' = [sizing EXCEPT
                     !.stage = "debited",
                     !.cash = FSub(sizing.cash,
                                   FMul(sizing.entry_price, sizing.units))]
    /\ UNCHANGED <<trailing, metrics, conversion, loaded>>
    /\ UNCHANGED trading_vars

NextSizing ==
    \/ SizePosition
    \/ DebitEntry

SpecSizing == InitSizing /\ [][NextSizing]_vars

(***************************************************************************)
(* The managers' loops run from the start on a market and a signal: what   *)
(* the loop has done once its n-th iteration is over.  outcome is the      *)
(* outcome of that iteration, "aborted" when an earlier iteration raised.  *)
(***************************************************************************)
RECURSIVE LimitedCapital_manage(_, _, _, _)
LimitedCapital_manage(mgr, mkt, sig, n) ==
    IF n = 0
    THEN [ledger |-> new_time_info(mkt, mgr.initial_capital),
          outcome |-> "skip", position |-> NoManager]
    ELSE LET before == LimitedCapital_manage(mgr, mkt, sig, n - 1)
             it == LimitedCapital_iteration(mgr, mkt, sig, before.ledger, n)
         IN  IF before.outcome \in {"raise", "aborted"}
             THEN [before EXCEPT !.outcome = "aborted"]
             ELSE [ledger |-> it.time_info, outcome |-> it.outcome,
                   position |-> it.position]

RECURSIVE UnlimitedCapital_manage(_, _, _, _, _)
UnlimitedCapital_manage(mgr, mkt, sig, pf, n) ==
    IF n = 0
    THEN [ledger |-> pf, outcome |-> "skip", position |-> NoManager]
    ELSE LET before == UnlimitedCapital_manage(mgr, mkt, sig, pf, n - 1)
             it == UnlimitedCapital_iteration(mgr, mkt, sig, before.ledger,
                                              new_positions_idx(sig)[n])
         IN  IF before.outcome \in {"raise", "aborted"}
             THEN [before EXCEPT !.outcome = "aborted"]
             ELSE [ledger |-> it.portfolio, outcome |-> it.outcome,
                   position |-> it.position]

(***************************************************************************)
(* Properties                                                              *)
(***************************************************************************)
\* Number of accepted positions whose interval [start_date, stop_date]
\* contains bar i
OpenAt(i) ==
    Cardinality({k \in DOMAIN position_list :
                    /\ position_list[k].start_date <= i
                    /\ i <= position_list[k].stop_date})

\* C1: in LimitedCapital.manage, at every bar the number of accepted
\* positions whose closed interval [start_index, stop_index] contains the bar
\* is at most limit_of_positions; with a limit of 0 nothing is accepted.
C1_OpenCountWithinLimit ==
    manager.variant = "limited" =>
        /\ \A i \in Bars : OpenAt(i) <= manager.limit_of_positions
        /\ manager.limit_of_positions = 0 => position_list = <<>>

\* C1 witness: a finished pass with limit 2 in which two accepted positions
\* overlap on a bar, and a later nonzero signal on that bar's successor.
C1_Witness ==
    /\ manager.variant = "limited"
    /\ manager.limit_of_positions = 2
    /\ cursor > NumBars
    /\ \E i \in Bars : OpenAt(i) = 2 /\ signal[i] # 0

\* The stop-loss is breached on bar i (long: low <= stop_loss_price,
\* short: high >= stop_loss_price)
StopBreached(p, i) ==
    IF p.type = "long" THEN RLe(market[i].low, p.stop_loss_price)
                       ELSE RLe(p.stop_loss_price, market[i].high)

\* The take-profit is breached on bar i (long: high >= take_profit_price,
\* short: low <= take_profit_price)
ProfitBreached(p, i) ==
    IF p.type = "long" THEN RLe(p.take_profit_price, market[i].high)
                       ELSE RLe(market[i].low, p.take_profit_price)

\* First bar at or after the start where the stop-loss (resp. take-profit)
\* is breached, 0 when there is none
FirstStop(p) ==
    IF \E i \in Bars : i >= p.start_date /\ StopBreached(p, i)
    THEN SetMin({i \in Bars : i >= p.start_date /\ StopBreached(p, i)})
    ELSE 0

FirstProfit(p) ==
    IF \E i \in Bars : i >= p.start_date /\ ProfitBreached(p, i)
    THEN SetMin({i \in Bars : i >= p.start_date /\ ProfitBreached(p, i)})
    ELSE 0

Resolved(p) == p.stage # "constructed"

\* C2: for every resolved position start_index <= stop_index <= last bar, no
\* threshold is breached on a bar of [start_index, stop_index), and
\* stop_index is the last bar unless a threshold is breached on it.
C2_StopIndexIsEarliest ==
    \A k \in DOMAIN positions :
        LET p == positions[k] IN
        Resolved(p) =>
            /\ p.start_date <= p.stop_date
            /\ p.stop_date <= NumBars
            /\ \A i \in Bars :
                 (p.start_date <= i /\ i < p.stop_date) =>
                     ~StopBreached(p, i) /\ ~ProfitBreached(p, i)
            /\ p.stop_date < NumBars =>
                 StopBreached(p, p.stop_date) \/ ProfitBreached(p, p.stop_date)

\* C2 witness: a resolved long stopped by its stop-loss strictly after its
\* start bar and strictly before the last bar, and a resolved short.
C2_Witness ==
    /\ \E k \in DOMAIN positions :
          /\ Resolved(positions[k])
          /\ positions[k].type = "long"
          /\ positions[k].start_date < positions[k].stop_date
          /\ positions[k].stop_date < NumBars
          /\ StopBreached(positions[k], positions[k].stop_date)
    /\ \E k \in DOMAIN positions :
          /\ Resolved(positions[k])
          /\ positions[k].type = "short"
          /\ positions[k].stop_date < NumBars

\* C3: for every position written to the ledger in which one threshold is
\* breached strictly before the other (or the other never), exit_price is
\* the price of that threshold: stop_loss_price with outcome loss (-1) when
\* the stop-loss came first, take_profit_price with outcome win (+1) when the
\* take-profit came first.
C3_ExitPriceIsBreachedThreshold ==
    \A k \in DOMAIN positions :
        LET p == positions[k] IN
        p.stage = "updated" =>
            /\ (FirstStop(p) # 0
                /\ (FirstProfit(p) = 0 \/ FirstStop(p) < FirstProfit(p)))
               => (p.exit_price = p.stop_loss_price /\ p.is_win = 0 - 1)
            /\ (FirstProfit(p) # 0
                /\ (FirstStop(p) = 0 \/ FirstProfit(p) < FirstStop(p)))
               => (p.exit_price = p.take_profit_price /\ p.is_win = 1)

\* C4: a resolved position whose stop-loss and take-profit are first
\* breached on the same bar has a defined outcome, loss (-1), and once it is
\* written to the ledger its exit_price is stop_loss_price.
C4_TieResolvesToLoss ==
    \A k \in DOMAIN positions :
        LET p == positions[k] IN
        (Resolved(p) /\ FirstStop(p) # 0 /\ FirstStop(p) = FirstProfit(p)) =>
            /\ p.has_is_win
            /\ p.is_win = 0 - 1
            /\ p.stage # "failed"
            /\ p.stage = "updated" => p.exit_price = p.stop_loss_price

\* C5: a resolved position none of whose thresholds is breached from its
\* start bar to the last bar has outcome timeout (0) and stop_index the last
\* bar, and once written to the ledger its exit_price is the last close.
C5_TimeoutExitsAtLastClose ==
    \A k \in DOMAIN positions :
        LET p == positions[k] IN
        (Resolved(p) /\ FirstStop(p) = 0 /\ FirstProfit(p) = 0) =>
            /\ p.has_is_win
            /\ p.is_win = 0
            /\ p.stop_date = NumBars
            /\ p.stage = "updated" => p.exit_price = market[NumBars].close

\* Position k is written to the portfolio dataframe in this step
Contributes(k) ==
    /\ positions[k].stage = "initialized"
    /\ positions'[k].stage \in {"updated", "failed"}

InInterval(p, i) == p.start_date <= i /\ i <= p.stop_date

C7_UnitsHoldingsCountersOverInterval ==
    [][\A k \in DOMAIN positions :
         Contributes(k) =>
            LET p == positions[k] IN
            \A i \in Bars :
               /\ portfolio'.units[i] =
                    IF InInterval(p, i) THEN RAdd(portfolio.units[i], p.size)
                                        ELSE portfolio.units[i]
               /\ portfolio'.holdings[i] =
                    IF InInterval(p, i)
                    THEN RAdd(portfolio.holdings[i], RMul(p.size, market[i].close))
                    ELSE portfolio.holdings[i]
               /\ portfolio'.long_positions[i] =
                    IF InInterval(p, i) /\ p.type = "long"
                    THEN portfolio.long_positions[i] + 1
                    ELSE portfolio.long_positions[i]
               /\ portfolio'.short_positions[i] =
                    IF InInterval(p, i) /\ p.type = "short"
                    THEN portfolio.short_positions[i] + 1
                    ELSE portfolio.short_positions[i]]_vars

\* C7 witness: a long with bars of the market both before its start bar and
\* after its stop bar, and a short, have been written to the ledger.
C7_Witness ==
    /\ \E k \in DOMAIN positions :
          /\ positions[k].stage \in {"updated", "failed"}
          /\ positions[k].type = "long"
          /\ 1 < positions[k].start_date
          /\ positions[k].stop_date < NumBars
    /\ \E k \in DOMAIN positions :
          /\ positions[k].stage \in {"updated", "failed"}
          /\ positions[k].type = "short"

\* C8: when a position is written to the ledger (and the call completes),
\* cash at the bars before start_index keeps its value and cash at every bar
\* from start_index on is lowered by entry_price*size + spread (bars after
\* stop_index also carry the exit credit).
C8_EntryDebitIncludesSpread ==
    [][\A k \in DOMAIN positions :
         (Contributes(k) /\ positions'[k].stage = "updated") =>
            LET p == positions'[k]
                debit == RAdd(RMul(p.entry_price, p.size), p.spread)
            IN  \A i \in Bars :
                  portfolio'.cash[i] =
                     IF i < p.start_date THEN portfolio.cash[i]
                     ELSE IF i <= p.stop_date THEN RSub(portfolio.cash[i], debit)
                     ELSE RAdd(RSub(portfolio.cash[i], debit), p.exit_get)]_vars

\* The ledger obtained by writing, in list order, the positions of ps from
\* the k-th on that have been written to the portfolio
RECURSIVE WrittenInListOrder(_, _, _)
WrittenInListOrder(df, ps, k) ==
    IF k > Len(ps) THEN df
    ELSE IF ps[k].stage \in {"updated", "failed"}
         THEN WrittenInListOrder(update_portfolio_dataframe(df, ps[k], market).df,
                                 ps, k + 1)
         ELSE WrittenInListOrder(df, ps, k + 1)

Actionable(t) == signal[t] # 0 /\ (t > 1 => signal[t] # signal[t - 1])

\* C10: under every capital manager, every accepted position was opened at
\* an actionable bar; a nonzero signal repeating the previous bar's value
\* opens nothing.
C10_OpensOnlyOnSignalEdge ==
    \A k \in DOMAIN position_list : Actionable(position_list[k].start_date)

\* Bar t carries a candidate whose computed size is below 1: the signal is
\* nonzero, the bar is one the manager's loop visits and (LimitedCapital) the
\* limit of positions is not reached there.
SizeBelowOneCandidate(t) ==
    /\ signal[t] # 0
    /\ IF manager.variant = "limited"
       THEN /\ ~limit_of_positions_reached(time_info.open_positions[t],
                                           manager.limit_of_positions)
            /\ RLt(LimitedCapital_units(manager, market, time_info, t), R(1))
       ELSE /\ t > 1 /\ signal[t] # signal[t - 1]
            /\ RLt(UnlimitedCapital_units(manager, market, t), R(1))

\* The bar the next loop iteration of the running pass visits, 0 when the
\* loop is over
DateAtCursor ==
    IF manager.variant = "limited"
    THEN (IF cursor \in Bars THEN cursor ELSE 0)
    ELSE (IF cursor \in DOMAIN new_positions_idx(signal)
          THEN new_positions_idx(signal)[cursor] ELSE 0)

\* C11: no accepted position has a size below 1, and a loop iteration at a
\* bar whose candidate size is below 1 does not raise and leaves the running
\* ledger (time_info, portfolio) and the accepted list as they were.
C11_SizeBelowOneIsSkipped ==
    [][/\ \A k \in DOMAIN position_list' : ~RLt(position_list'[k].size, R(1))
       /\ (cursor' = cursor + 1 /\ DateAtCursor # 0
             /\ SizeBelowOneCandidate(DateAtCursor))
          => /\ ~raised'
             /\ position_list' = position_list
             /\ time_info' = time_info
             /\ portfolio' = portfolio]_vars

\* C11 witness: a LimitedCapital pass that has accepted a position and has
\* gone past a bar whose candidate size was below 1.
C11_Witness ==
    /\ manager.variant = "limited"
    /\ position_list # <<>>
    /\ \E t \in Bars : t < cursor /\ SizeBelowOneCandidate(t)

\* C12: every position LimitedCapital.manage accepts at a bar has the size
\* floor(min(max_cap_per_trade - spread, cash_at(bar) - spread) / entry_price),
\* a whole number of units, cash_at(bar) being the running cash at that bar
\* when the bar is visited.
C12_LimitedSizeIsFloored ==
    [][(manager.variant = "limited"
          /\ Len(position_list') = Len(position_list) + 1)
       => LET p == position_list'[Len(position_list')]
              budget == RMin(RSub(manager.max_cap_per_trade, manager.spread),
                             RSub(time_info.cash[cursor], manager.spread))
          IN  /\ p.size = RFloor(RDiv(budget, p.entry_price))
              /\ p.size = RFloor(p.size)]_vars

\* C13: every position a capital manager created at bar b has entry_price
\* close[b] + spread when it is long and close[b] - spread when it is short.
C13_EntryPriceBySide ==
    \A k \in DOMAIN position_list :
        LET p == position_list[k]
            close == market[p.start_date].close
        IN  p.entry_price = IF p.type = "long" THEN RAdd(close, manager.spread)
                                               ELSE RSub(close, manager.spread)

\* The levels of p bracket its entry price by side
Brackets(p) ==
    IF p.type = "long"
    THEN RLt(p.stop_loss_price, p.entry_price)
         /\ RLt(p.entry_price, p.take_profit_price)
    ELSE RLt(p.take_profit_price, p.entry_price)
         /\ RLt(p.entry_price, p.stop_loss_price)

\* C14: every resolved position with a positive entry price, whether built
\* by a capital manager from DirectLossProfitManagement levels or initialized
\* from risk-management offsets, with positive stop-loss and take-profit
\* parameters, has stop_loss_price < entry_price < take_profit_price when
\* long and take_profit_price < entry_price < stop_loss_price when short.
C14_LevelsBracketEntry ==
    /\ \A k \in DOMAIN position_list :
          (/\ RLt(R(0), position_list[k].entry_price)
           /\ RLt(R(0), manager.loss_profit_managment.stop_loss)
           /\ RLt(R(0), manager.loss_profit_managment.take_profit))
          => Brackets(position_list[k])
    /\ \A k \in DOMAIN positions :
          (/\ Resolved(positions[k])
           /\ RLt(R(0), positions[k].entry_price)
           /\ RLt(R(0), risk_management.stop_loss)
           /\ RLt(R(0), risk_management.take_profit))
          => Brackets(positions[k])

\* C14 witness: a pass with different stop-loss and take-profit parameters
\* has accepted a long and a short.
C14_Witness ==
    /\ manager.loss_profit_managment.stop_loss
          # manager.loss_profit_managment.take_profit
    /\ \E k \in DOMAIN position_list : position_list[k].type = "long"
    /\ \E k \in DOMAIN position_list : position_list[k].type = "short"

\* C15: under DirectLossProfitManagement(stop_loss = s, take_profit = p) the
\* levels of every accepted position are, for a long, entry_price*(1 - s) and
\* entry_price*(1 + p), and for a short, entry_price*(1 + s) and
\* entry_price*(1 - p): the stop level is a function of s alone and the
\* profit level of p alone.
C15_StaticPercentageLevels ==
    \A k \in DOMAIN position_list :
        LET q == position_list[k]
            s == manager.loss_profit_managment.stop_loss
            p == manager.loss_profit_managment.take_profit
        IN  IF q.type = "long"
            THEN /\ q.stop_loss_price = RMul(q.entry_price, RSub(R(1), s))
                 /\ q.take_profit_price = RMul(q.entry_price, RAdd(R(1), p))
            ELSE /\ q.stop_loss_price = RMul(q.entry_price, RAdd(R(1), s))
                 /\ q.take_profit_price = RMul(q.entry_price, RSub(R(1), p))

\* C16: with a signal that is zero at every bar no position is created and
\* at every bar cash is the initial capital and holdings is 0, in the
\* manager's running ledger and in the portfolio ledger.
C16_ZeroSignalMeansNoTrades ==
    (\A i \in Bars : signal[i] = 0) =>
        /\ position_list = <<>>
        /\ \A i \in Bars :
              /\ portfolio.cash[i] = InitialCapital
              /\ portfolio.holdings[i] = R(0)
              /\ portfolio.units[i] = R(0)
        /\ (manager.variant = "limited" /\ cursor > 0) =>
              \A i \in Bars :
                 /\ time_info.cash[i] = manager.initial_capital
                 /\ time_info.open_positions[i] = 0

\* C16 witness: a LimitedCapital pass over an all-zero signal has visited
\* every bar.
C16_Witness ==
    /\ \A i \in Bars : signal[i] = 0
    /\ manager.variant = "limited"
    /\ manager.limit_of_positions > 0
    /\ cursor > NumBars

\* C17: when manage() has been run a second time on the same manager and
\* backtester with the same market and signal, the accepted list and the
\* ledgers (the manager's time_info and the backtester's portfolio) are at
\* every bar what the first run left.
C17_RerunIsDeterministic ==
    (first_run # NoRun /\ PassIsOver /\ ~raised) =>
        /\ position_list = first_run.position_list
        /\ time_info = first_run.time_info
        /\ portfolio = first_run.portfolio

\* What a manager decided at a bar: the outcome and, for an accepted
\* position, its side, size, entry price and levels
Decision(outcome, p) ==
    IF outcome = "open"
    THEN [outcome |-> outcome, type |-> p.type, size |-> p.size,
          entry_price |-> p.entry_price,
          stop_loss_price |-> p.stop_loss_price,
          take_profit_price |-> p.take_profit_price]
    ELSE [outcome |-> outcome]

\* The decision the running pass takes in this step
DecisionTaken ==
    IF raised' THEN Decision("raise", NoManager)
    ELSE IF Len(position_list') = Len(position_list) + 1
         THEN Decision("open", position_list'[Len(position_list')])
         ELSE Decision("skip", NoManager)

\* The decision the same manager takes at the same loop iteration in a run
\* on market mkt and signal sig
DecisionInRun(mkt, sig) ==
    LET run == IF manager.variant = "limited"
               THEN LimitedCapital_manage(manager, mkt, sig, cursor)
               ELSE UnlimitedCapital_manage(manager, mkt, sig, InitialLedger, cursor)
    IN  Decision(run.outcome, run.position)

\* Markets and signals that agree with the running pass's on the bars 1..t
AgreeUpTo(t) ==
    { ms \in Markets \X Signals :
        \A i \in 1..t : ms[1][i] = market[i] /\ ms[2][i] = signal[i] }

C19_StartAtLastBarTimesOut ==
    \A k \in DOMAIN positions :
        LET p == positions[k] IN
        (Resolved(p) /\ p.start_date = NumBars) =>
            /\ p.stop_date = p.start_date
            /\ p.has_is_win
            /\ p.is_win = 0

\* The signal at bar t differs from the signal at the bar before it
SignalEdge(t) == t > 1 /\ signal[t] # signal[t - 1]

\* floor((max_cap_per_trade - spread) / entry_price) at bar t, the entry
\* price being the one the manager computes there
UnlimitedSizeAt(t) ==
    RFloor(RDiv(RSub(manager.max_cap_per_trade, manager.spread),
                RAdd(market[t].close, manager.spread)))

RECURSIVE ExtremeOfSupplied(_)
ExtremeOfSupplied(n) ==
    IF n = 0 THEN trailing.entry_price
    ELSE IF trailing.position_type = "long"
         THEN RMax(ExtremeOfSupplied(n - 1), trailing.prices[n])
         ELSE RMin(ExtremeOfSupplied(n - 1), trailing.prices[n])

\* C21: after set_initial_conditions and any chronological sequence of
\* update_extreme_price calls, extreme_price is the maximum (long) or minimum
\* (short) of the entry price and all prices supplied so far; every returned
\* stop level is max(initial_stop, extreme_price - trailing_stop) for a long
\* and min(initial_stop, extreme_price + trailing_stop) for a short; and the
\* returned stop levels never decrease for a long and never increase for a
\* short.
C21_TrailingStopOnlyTightens ==
    trailing.stage = "tracking" =>
        /\ trailing.extreme_price = ExtremeOfSupplied(Len(trailing.prices))
        /\ \A j \in DOMAIN trailing.returned :
              LET r == trailing.returned[j]
                  extreme == ExtremeOfSupplied(r.supplied)
              IN  r.levels[1] =
                    IF trailing.position_type = "long"
                    THEN RMax(trailing.initial_stop_loss,
                              RSub(extreme, trailing.trailing_stop))
                    ELSE RMin(trailing.initial_stop_loss,
                              RAdd(extreme, trailing.trailing_stop))
        /\ \A i, j \in DOMAIN trailing.returned :
              i < j =>
                 IF trailing.position_type = "long"
                 THEN RLe(trailing.returned[i].levels[1],
                          trailing.returned[j].levels[1])
                 ELSE RLe(trailing.returned[j].levels[1],
                          trailing.returned[i].levels[1])

\* C21 witness: a long whose price rose above the entry and fell again, with
\* levels returned before the rise and after the fall.
C21_Witness ==
    /\ trailing.stage = "tracking"
    /\ trailing.position_type = "long"
    /\ Len(trailing.prices) >= 2
    /\ RLt(trailing.entry_price, trailing.prices[1])
    /\ RLt(trailing.prices[2], trailing.entry_price)
    /\ \E i, j \in DOMAIN trailing.returned :
          /\ trailing.returned[i].supplied = 0
          /\ trailing.returned[j].supplied = 2
          /\ RLt(trailing.returned[i].levels[1], trailing.returned[j].levels[1])

\* The ledger the aggregation step builds from the accepted positions
AggregatedLedger == aggregate(InitialLedger, position_list, market, 1)

ScenarioEntryHandled ==
    IF manager.variant = "limited" THEN cursor > 2 ELSE cursor > 1

\* C23: in the scenario (closes 100, 101, 99, 102, 105, signal 0, 1, 0, 0,
\* -1, spread 0, 2% / 2%) nothing is opened before index 1, and the long
\* opened at index 1 (bar 2) has entry price 101, stop-loss price 98.98 and
\* take-profit price 103.02, no trigger at indexes 2 and 3 (bars 3 and 4),
\* and resolves at index 4 (bar 5) as a win with exit price 103.02.
C23_ScenarioLongWinsAtLastBar ==
    /\ ~ScenarioEntryHandled => position_list = <<>>
    /\ ScenarioEntryHandled =>
          /\ ~raised
          /\ Len(position_list) >= 1
          /\ LET p == position_list[1]
             IN  /\ p.type = "long"
                 /\ p.start_date = 2
                 /\ p.entry_price = R(101)
                 /\ p.stop_loss_price = <<4949, 50>>
                 /\ p.take_profit_price = <<5151, 50>>
                 /\ p.stop_loss_trigger = 0
                 /\ p.take_profit_trigger = 5
                 /\ \A i \in {3, 4} :
                       /\ ~RLe(market[i].low, p.stop_loss_price)
                       /\ ~RLe(p.take_profit_price, market[i].high)
                 /\ p.stop_date = 5
                 /\ p.has_is_win /\ p.is_win = 1
                 /\ p.exit_price = <<5151, 50>>

\* C23 witness: a LimitedCapital pass over the scenario is over and the
\* long of index 1 is in the list.
C23_Witness ==
    /\ market = ScenarioMarket
    /\ manager.variant = "limited"
    /\ cursor > Len(market)
    /\ Len(position_list) >= 1
    /\ position_list[1].start_date = 2
    /\ position_list[1].type = "long"

\* C24: when the standard deviation of the per-bar returns is zero, the
\* Sharpe ratio is a defined sentinel, 0 or +infinity, and not NaN.
C24_SharpeOfZeroDeviationIsSentinel ==
    (metrics.stage = "metrics" /\ metrics.var = Num(R(0))) =>
        \/ metrics.sharpe_ratio = Num(R(0))
        \/ metrics.sharpe_ratio = Infinity

\* The input is a string in which no character is a percent sign
StringWithoutPercent(input) ==
    /\ input.type = "str"
    /\ \A i \in DOMAIN input.chars : input.chars[i] # "%"

\* C25: percent_to_float returns an input without a percent sign with its
\* value unchanged: a number x as x, and a numeric string such as "42" as
\* the number it denotes, not divided by 100 and with no character dropped.
C25_BareNumericsPassThrough ==
    conversion.stage = "returned" =>
        /\ conversion.input.type = "number" =>
              conversion.result = [ok |-> TRUE, value |-> conversion.input.value]
        /\ (StringWithoutPercent(conversion.input)
              /\ float_of(conversion.input.chars).ok) =>
              conversion.result = float_of(conversion.input.chars)

\* C26: loading succeeds only if every timestamp is strictly greater than
\* the one before it; two consecutive rows with the same timestamp make it
\* fail.
C26_OnlyStrictlyIncreasingTimestampsLoad ==
    loaded.stage = "loaded" =>
        \A i \in DOMAIN loaded.dates :
            i > 1 => loaded.dates[i - 1] < loaded.dates[i]

\* C27: no step of manage(), for any manager variant, changes the portfolio
\* ledger (cash, holdings, units, side counters).
C27_ManageLeavesPortfolioAlone == [][portfolio' = portfolio]_vars

\* The accepted positions opened before bar s that are still open on it,
\* the bar they close on included
OpenBefore(s) ==
    Cardinality({k \in DOMAIN position_list :
                    /\ position_list[k].start_date < s
                    /\ s <= position_list[k].stop_date})

\* C28: in LimitedCapital.manage the running open count of a bar is the
\* number of accepted positions whose closed interval [start, stop] holds
\* the bar, and a bar on which the positions opened earlier and not closed
\* before it are as many as the limit gets no new position, whatever its
\* signal and even if one of them closes on that bar.
C28_SlotIsFreeOnlyAfterTheClosingBar ==
    (manager.variant = "limited" /\ cursor >= 1) =>
        /\ \A i \in Bars : time_info.open_positions[i] = OpenAt(i)
        /\ \A s \in Bars :
              (s < cursor /\ OpenBefore(s) >= manager.limit_of_positions) =>
                  \A k \in DOMAIN position_list : position_list[k].start_date # s

\* C28 witness: a bar with a nonzero signal has been handled on which the
\* open count equals a limit of at least 1, one of the open positions
\* closes on that very bar, and nothing was opened on it.
C28_Witness ==
    /\ manager.variant = "limited"
    /\ manager.limit_of_positions >= 1
    /\ \E s \in Bars :
          /\ s < cursor
          /\ signal[s] # 0
          /\ OpenBefore(s) = manager.limit_of_positions
          /\ \E k \in DOMAIN position_list :
                position_list[k].start_date < s /\ position_list[k].stop_date = s
          /\ \A k \in DOMAIN position_list : position_list[k].start_date # s

\* C29: when a position whose stop_index is the last bar is written to the
\* ledger, cash at every bar from start_index on is lowered by exactly
\* entry_price*size, cash before start_index is unchanged, and no bar
\* receives the exit credit.
C29_LastBarStopGetsNoExitCredit ==
    [][\A k \in DOMAIN positions :
         (Contributes(k) /\ positions[k].stop_date = NumBars) =>
            \A i \in Bars :
                portfolio'.cash[i] =
                    IF i >= positions[k].start_date
                    THEN RSub(portfolio.cash[i],
                              RMul(positions[k].entry_price, positions[k].size))
                    ELSE portfolio.cash[i]]_vars

\* The bar has been sized with units >= 1 and spread >= 0
SizedWithUnits ==
    /\ sizing.stage \in {"sized", "debited"}
    /\ RLe(R(1), sizing.units)
    /\ RLe(R(0), sizing.spread)

\* C30 as stated: whenever units >= 1 and spread >= 0, position_cost is at
\* most the cash at the bar, the insufficient-cash branch is not taken and
\* cash is not negative after the entry.
C30_InsufficientCashBranchIsDead ==
    SizedWithUnits =>
        /\ sizing.stage = "sized" => RLe(sizing.position_cost, sizing.cash)
        /\ sizing.outcome # "insufficient_cash"
        /\ RLe(R(0), sizing.cash)

\* (1 + 2^-MantissaBits)^4: the growth of four rounded operations
FourRoundings ==
    LET one_rounding == RAdd(R(1), RPow2(0 - MantissaBits))
    IN  RMul(RMul(one_rounding, one_rounding), RMul(one_rounding, one_rounding))

\* C30 amended: whenever units >= 1 and spread >= 0, position_cost exceeds
\* the cash at the bar by no more than the rounding of its four operations
\* (position_cost <= cash * (1 + 2^-MantissaBits)^4), and the cash of the
\* bar is not negative after the entry debit of an accepted position.
C30_CostExceedsCashOnlyByRounding ==
    SizedWithUnits =>
        /\ sizing.stage = "sized" =>
              RLe(sizing.position_cost, RMul(sizing.cash, FourRoundings))
        /\ sizing.stage = "debited" => RLe(R(0), sizing.cash)

\* C30 witness: a bar sized with units >= 1 and spread >= 0 whose rounded
\* position_cost exceeds its cash, so that the position is rejected for
\* insufficient cash.
C30_Witness ==
    /\ SizedWithUnits
    /\ sizing.stage = "sized"
    /\ sizing.outcome = "insufficient_cash"
    /\ RLt(sizing.cash, sizing.position_cost)

====
